---- MODULE Spec2Model ----
(***************************************************************************)
(* Model of the Slack event gateway of QuantaFiAgent:                      *)
(*   handlers/verifier.py       SlackRequestVerifier                       *)
(*   utils/cache.py             EventCache                                 *)
(*   handlers/slack_gateway.py  SlackEventGateway                          *)
(*   handlers/normalizer.py, agent_forwarder.py, responder.py              *)
(*   agent_backend/chat_history.py, agents/engineer.py                     *)
(* Time is counted in whole seconds.  Strings the code builds by           *)
(* concatenation are modelled as tuples of their parts.                    *)
(***************************************************************************)
EXTENDS Integers, Sequences, FiniteSets, TLC

VARIABLES
    now,          \* wall clock read by time() / time.time()
    bot_user_id,  \* SlackEventGateway.bot_user_id: <<>> is None, <<u>> a user id
    cache,        \* EventCache.cache: OrderedDict as a sequence of [id, ts]
    pc,           \* per delivery: position of its handler / background task
    resp,         \* per delivery: the HTTP response sent to the webhook caller
    ev,           \* per delivery: arguments of the scheduled background task
    trace,        \* per delivery: collaborator calls made by its background task
    loc,          \* per delivery: locals of its background task
    loop,         \* delivery whose background task occupies the event loop, 0 if none
    transcript,   \* chat_history/*.jsonl: conversation id -> sequence of records
    gate,         \* per delivery: the step of handle_event that ended the admission
    req,          \* per delivery: the request it carries
    at,           \* per delivery: the clock when handle_event ran, -1 before
    vin, vout,    \* function harnesses: the arguments of a call, and its result
    cret          \* cache harness: the latest cache call and its result

vars == <<now, bot_user_id, cache, pc, resp, ev, trace, loc, loop,
          transcript, gate, req, at, vin, vout, cret>>

gwvars == <<bot_user_id, pc, resp, ev, trace, loc, loop, transcript, gate, req, at>>

(***************************************************************************)
(* Bounds of the model                                                     *)
(***************************************************************************)
MaxDeliveries == 2
MaxTime == 301
MaxLines == 2

Deliveries == 1..MaxDeliveries

\* The clock advances in jumps that put elapsed times on both sides of the TTL.
TickDeltas == {300, 301}

(***************************************************************************)
(* Program constants                                                       *)
(***************************************************************************)
ReplayWindow == 300
StaleThreshold == 60
CacheTTL == 300

SigningSecret == "secret"
BotId == "UBOT"

None == <<>>
Some(x) == <<x>>

(***************************************************************************)
(* Signature verifier                                                      *)
(***************************************************************************)
\* A timestamp header: the decimal numeral of val, the same numeral with
\* surrounding blanks (int() accepts it), the empty string or a non-numeral.
NumHeader(n) == [kind |-> "num", val |-> n]
PaddedHeader(n) == [kind |-> "padded", val |-> n]
EmptyHeader == [kind |-> "empty", val |-> 0]
JunkHeader == [kind |-> "junk", val |-> 0]

IsNumeral(h) == h.kind \in {"num", "padded"}

\* int(timestamp) for a header int() accepts
IntOf(h) == h.val

Abs(x) == IF x < 0 THEN 0 - x ELSE x

\* mutant: the timestamp is left out of the signed string
SigBasestringBodyOnly(timestamp, body) == <<"v0", body>>

\* f"v0:{timestamp}:{body}"
SigBasestring(timestamp, body) == <<"v0", timestamp, body>>

\* hmac.new(key, msg, sha256).hexdigest(): an injective function of (key, msg)
HmacHex(key, msg) == <<"hmac", key, msg>>

\* "v0=" + hexdigest
MySignature(secret, timestamp, body) ==
    <<"v0=", HmacHex(secret, SigBasestring(timestamp, body))>>

\* mutant: only timestamps in the past are rejected
TooOldPastOnly(t, timestamp) == t - IntOf(timestamp) > ReplayWindow

\* the replay-window test of verify
TooOld(t, timestamp) == Abs(t - IntOf(timestamp)) > ReplayWindow

\* hmac.compare_digest
CompareDigest(a, b) == a = b

\* SlackRequestVerifier.verify at clock t: "true", "false", or "ValueError"
\* when int(timestamp) raises.
Verify(secret, body, timestamp, signature, t) ==
    IF ~IsNumeral(timestamp) THEN "ValueError"
    ELSE IF TooOld(t, timestamp) THEN "false"
    ELSE IF CompareDigest(MySignature(secret, timestamp, body), signature)
         THEN "true" ELSE "false"

(***************************************************************************)
(* Event cache                                                             *)
(***************************************************************************)
CacheKeys(c) == {c[i].id : i \in 1..Len(c)}

CacheIndex(c, id) == CHOOSE i \in 1..Len(c) : c[i].id = id

\* self.cache[event_id] for a key that is present
CacheTs(c, id) == c[CacheIndex(c, id)].ts

\* mutant: entries expire at the stale-event threshold
ExpiredAtStaleThreshold(e, t) == t - e.ts > StaleThreshold

Expired(e, t) == t - e.ts > CacheTTL

\* mutant: the sweep stops after the oldest entry
CleanupOldestOnly(c, t) ==
    IF c # <<>> /\ Expired(c[1], t) THEN Tail(c) ELSE c

\* EventCache._cleanup
Cleanup(c, t) == SelectSeq(c, LAMBDA e : ~Expired(e, t))

\* EventCache.has_event: the swept cache and the membership answer
HasEvent(c, id, t) ==
    [cache |-> Cleanup(c, t), found |-> id \in CacheKeys(Cleanup(c, t))]

\* mutant: the insert is left out of the admission path
AddEventDeferred(c, id, t) == c

\* EventCache.add_event: OrderedDict assignment keeps the position of a key
\* that is present and appends a new key
AddEvent(c, id, t) ==
    IF id \in CacheKeys(c)
    THEN [i \in 1..Len(c) |-> IF c[i].id = id THEN [id |-> id, ts |-> t] ELSE c[i]]
    ELSE Append(c, [id |-> id, ts |-> t])

\* EventCache.get_age: None or the age
GetAge(c, id, t) ==
    IF id \notin CacheKeys(c) THEN None ELSE Some(t - CacheTs(c, id))

(***************************************************************************)
(* Message text, events and payloads                                       *)
(***************************************************************************)
\* A text is a sequence of tokens: a mention tag <@ID> or a word.
Mention(uid) == [m |-> TRUE, s |-> uid]
Word(w) == [m |-> FALSE, s |-> w]

\* f"<@{bot_user_id}>" in text
ContainsMention(text, uid) == \E i \in 1..Len(text) : text[i] = Mention(uid)

\* SlackEventNormalizer._clean_bot_mentions: re.sub(r'<@[A-Z0-9]+>', '', text).strip()
CleanBotMentions(text) == SelectSeq(text, LAMBDA k : ~k.m)

\* mutant: the channel is made part of the identity
EventIdWithChannel(event) == <<event.type, event.ts, event.channel>>

\* f"{event_type}:{event_ts}"
EventId(event) == <<event.type, event.ts>>

\* event.get('thread_ts', event['ts'])
ThreadRoot(event) == IF event.thread_ts = None THEN event.ts[1] ELSE event.thread_ts[1]

\* f"{event['channel']}:{thread root}"
ConversationId(event) == <<event.channel, ThreadRoot(event)>>

\* mutant: only the subtype marks a bot
IsBotOriginSubtypeOnly(event) == event.subtype = Some("bot_message")

\* event.get("subtype") == "bot_message" or event.get("bot_id")
IsBotOrigin(event) == event.subtype = Some("bot_message") \/ event.bot_id # None

\* mutant: only direct messages are answered
ShouldRespondDirectOnly(event, event_type) ==
    event_type = "message" /\ event.channel_type \in {Some("im"), Some("mpim")}

\* mutant: every message is answered, whatever the channel kind
ShouldRespondAnyMessage(event, event_type) ==
    event_type \in {"app_mention", "message"}

\* mutant: group direct messages are taken for channel messages
ShouldRespondNoGroupDm(event, event_type) ==
    event_type = "app_mention" \/ (event_type = "message" /\ event.channel_type = Some("im"))

\* SlackEventGateway._should_respond
ShouldRespond(event, event_type) ==
    IF event_type = "app_mention" THEN TRUE
    ELSE IF event_type = "message"
         THEN event.channel_type \in {Some("im"), Some("mpim")}
         ELSE FALSE

(***************************************************************************)
(* SlackEventGateway.handle_event, from the parsed request to the response *)
(***************************************************************************)
NoEvent == [type |-> "", ts |-> None, channel |-> "", channel_type |-> None,
            thread_ts |-> None, user |-> "", text |-> <<>>,
            subtype |-> None, bot_id |-> None]

NoTask == [event |-> NoEvent, event_type |-> "", should_respond |-> FALSE]

\* HTTP responses: status code and JSON body
NoResponse == [status |-> 0, body |-> <<>>]
OkResponse == [status |-> 200, body |-> <<"ok", "true">>]
ChallengeResponse(token) == [status |-> 200, body |-> <<"challenge", token>>]
Unauthorized == [status |-> 401, body |-> <<"detail", "Invalid signature">>]
ServerError == [status |-> 500, body |-> <<"detail", "Internal Server Error">>]

Outcome(response, c, g, task) == [resp |-> response, cache |-> c, gate |-> g, task |-> task]

\* mutant: a failed verification is acknowledged instead of raised
RejectAsAck(c) == Outcome(OkResponse, c, "unauthorized", NoTask)

\* raise HTTPException(status_code=401)
RejectUnauthorized(c) == Outcome(Unauthorized, c, "unauthorized", NoTask)

\* return {"challenge": body.get("challenge")}
EchoChallenge(payload, c) == 
    Outcome(ChallengeResponse(payload.challenge), c, "challenge", NoTask)

\* return {"ok": True} of a step that ends the admission without background work
AckNoOp(c, g) == Outcome(OkResponse, c, g, NoTask)

\* background_tasks.add_task(...); return {"ok": True}
AckAndSchedule(c, event) ==
    Outcome(OkResponse, c, "acknowledged",
            [event |-> event, event_type |-> event.type,
             should_respond |-> ShouldRespond(event, event.type)])

\* mutant: events are taken for fresh as long as the replay window
TooStaleAtReplayWindow(event, t) == t - event.ts[1] > ReplayWindow

\* the freshness test: time() - float(event_ts) > 60
TooStale(event, t) == t - event.ts[1] > StaleThreshold

\* the mention-collision test of a message event
MentionCollision(event, bot) ==
    /\ event.type = "message"
    /\ bot # None
    /\ ContainsMention(event.text, bot[1])

\* the steps after the dedup gate has inserted the identity
AfterDedup(event, c, bot) ==
    IF IsBotOrigin(event) THEN AckNoOp(c, "bot")
    ELSE IF MentionCollision(event, bot) THEN AckNoOp(c, "mention_collision")
    ELSE IF event.type \in {"app_mention", "message"} THEN AckAndSchedule(c, event)
    ELSE AckNoOp(c, "unknown")

\* mutant: the identity is inserted only when the event is scheduled
DedupGateInsertOnSchedule(event, c, t, bot) ==
    LET h == HasEvent(c, EventId(event), t)
        o == AfterDedup(event, h.cache, bot) IN
    IF h.found THEN AckNoOp(h.cache, "duplicate")
    ELSE IF o.gate = "acknowledged"
         THEN [o EXCEPT !.cache = AddEvent(h.cache, EventId(event), t)]
         ELSE o

\* the dedup gate: has_event, then add_event
DedupGate(event, c, t, bot) ==
    LET h == HasEvent(c, EventId(event), t) IN
    IF h.found THEN AckNoOp(h.cache, "duplicate")
    ELSE AfterDedup(event, AddEvent(h.cache, EventId(event), t), bot)

\* the event_callback branch
HandleCallback(event, c, t, bot) ==
    IF event.ts = None THEN Outcome(ServerError, c, "error", NoTask)
    ELSE IF TooStale(event, t) THEN AckNoOp(c, "stale")
    ELSE DedupGate(event, c, t, bot)

\* handle_event after the body has been read
HandleEvent(r, c, t, bot) ==
    IF ~r.body.wellformed THEN Outcome(ServerError, c, "error", NoTask)
    ELSE LET v == Verify(SigningSecret, r.body, r.timestamp, r.signature, t) IN
         IF v = "ValueError" THEN Outcome(ServerError, c, "error", NoTask)
         ELSE IF v = "false" THEN RejectUnauthorized(c)
         ELSE IF r.body.payload.type = "url_verification"
              THEN EchoChallenge(r.body.payload, c)
         ELSE IF r.body.payload.type = "event_callback"
              THEN HandleCallback(r.body.payload.event, c, t, bot)
         ELSE AckNoOp(c, "unknown")

(***************************************************************************)
(* Requests the platform (or anyone else) can deliver                      *)
(***************************************************************************)
TextMention == <<Mention(BotId), Word("deploy")>>
TextPlain == <<Word("hi")>>
TextOnlyMention == <<Mention(BotId)>>

\* a thread root older than every event
ThreadTs == 0 - 100

Event(type, ctype, ts, o, text, subtype, bot_id) ==
    [type |-> type, ts |-> ts, channel |-> o.channel, channel_type |-> ctype,
     thread_ts |-> o.thread_ts, user |-> o.user, text |-> text,
     subtype |-> subtype, bot_id |-> bot_id]

DefaultOrigin == [channel |-> "C1", thread_ts |-> None, user |-> "U1"]

SecondOrigin == [channel |-> "C2", thread_ts |-> Some(ThreadTs), user |-> "U2"]

\* where an event comes from: channel, thread and author
Origins == {DefaultOrigin, SecondOrigin}

DefaultEvent ==
    Event("app_mention", Some("channel"), Some(0), DefaultOrigin, TextMention, None, None)

\* events of users that pass or fail the freshness gate at clock 0
UserEvents ==
    { DefaultEvent,
      Event("app_mention", None, Some(0), SecondOrigin, TextOnlyMention, None, None),
      Event("app_mention", None, Some(300), DefaultOrigin, TextMention, None, None),
      Event("app_mention", None, Some(0 - 60), DefaultOrigin, TextMention, None, None),
      Event("app_mention", None, Some(0 - 61), DefaultOrigin, TextMention, None, None),
      Event("message", Some("channel"), Some(0), DefaultOrigin, TextPlain, None, None),
      Event("message", Some("channel"), Some(0), DefaultOrigin, TextMention, None, None),
      Event("message", Some("im"), Some(0), SecondOrigin, TextPlain, None, None) }

\* events that end at a gate whatever the clock: no known type, no timestamp,
\* bot origin
OtherEvents ==
    { Event("reaction_added", None, Some(0), DefaultOrigin, <<>>, None, None),
      Event("app_mention", None, None, DefaultOrigin, TextMention, None, None),
      Event("message", Some("channel"), Some(0), DefaultOrigin, TextPlain,
            Some("bot_message"), None),
      Event("app_mention", None, Some(0), DefaultOrigin, TextMention, None, Some("B1")) }

Events == UserEvents \cup OtherEvents

\* event timestamps carried by payloads
EventTsValues == {e.ts[1] : e \in {x \in Events : x.ts # None}}

EventBody(event) ==
    [wellformed |-> TRUE,
     payload |-> [type |-> "event_callback", challenge |-> "", event |-> event]]

ChallengeBody ==
    [wellformed |-> TRUE,
     payload |-> [type |-> "url_verification", challenge |-> "tok", event |-> NoEvent]]

OtherBody ==
    [wellformed |-> TRUE,
     payload |-> [type |-> "block_actions", challenge |-> "", event |-> NoEvent]]

MalformedBody ==
    [wellformed |-> FALSE,
     payload |-> [type |-> "", challenge |-> "", event |-> NoEvent]]

Request(timestamp, signature, body) ==
    [timestamp |-> timestamp, signature |-> signature, body |-> body]

\* a request signed by the platform at clock t
Signed(t, body) == Request(NumHeader(t), MySignature(SigningSecret, NumHeader(t), body), body)

\* requests that are not authentic, or not inside the replay window, at clock t
Unauthentic(t, body) ==
    { Signed(t - (ReplayWindow + 1), body),
      Signed(t + (ReplayWindow + 1), body),
      Request(NumHeader(t), MySignature("guess", NumHeader(t), body), body),
      Request(NumHeader(t), <<>>, body),
      Request(EmptyHeader, MySignature(SigningSecret, EmptyHeader, body), body) }

\* the requests a delivery can carry at clock t
Requests(t) ==
    { Signed(t, EventBody(e)) : e \in Events }
    \cup { Signed(t, ChallengeBody), Signed(t, OtherBody), Signed(t, MalformedBody),
           Signed(t - ReplayWindow, EventBody(DefaultEvent)),
           Signed(t + ReplayWindow, EventBody(DefaultEvent)) }
    \cup Unauthentic(t, EventBody(DefaultEvent))
    \cup Unauthentic(t, ChallengeBody)

NoRequest == Request(EmptyHeader, <<>>, MalformedBody)

(***************************************************************************)
(* Transcript store (ChatHistory) and the agent service                    *)
(***************************************************************************)
\* WebClient.users_info(user=...)["user"]["name"]
UserName(user) == IF user = "U1" THEN "alice" ELSE "j.doe"

\* name.replace(".", "_").replace("-", "_")
SafeName(name) == IF name = "j.doe" THEN "j_doe" ELSE name

\* the JSON line ChatHistory.append writes: name and content only when truthy
Line(role, content, name) ==
    [role |-> role,
     name |-> IF name = "" THEN None ELSE Some(SafeName(name)),
     content |-> IF content = <<>> THEN None ELSE Some(content)]

\* ChatHistory.append
HistoryAppend(store, conversation_id, role, content, name) ==
    [store EXCEPT ![conversation_id] = Append(@, Line(role, content, name))]

\* BasicMessage(**data) validates: content is a required field
Loadable(lines) == \A i \in 1..Len(lines) : lines[i].content # None

\* ChatHistory.load: the messages, when every line validates
HistoryLoad(store, conversation_id) == store[conversation_id]

Channels == {o.channel : o \in Origins}
Roots == {ThreadTs} \cup EventTsValues
Conversations == Channels \X Roots

\* mutant: the reply is threaded under the event itself, not under its thread root
NormalizerThreadTsOwnTs(event) == event.ts[1]

\* normalize: thread_ts = event.get("thread_ts", event["ts"])
NormalizerThreadTs(event) ==
    IF event.thread_ts = None THEN event.ts[1] ELSE event.thread_ts[1]

\* mutant: the normalizer keys the conversation by the event's own ts
NormalizerConversationIdOwnTs(event) == <<event.channel, event.ts[1]>>

\* normalize: conversation_id = f"{event['channel']}:{thread_ts}"
NormalizerConversationId(event) == <<event.channel, NormalizerThreadTs(event)>>

\* SlackEventNormalizer.normalize, given the outcome of its user lookup
Normalize(event, id, username) ==
    [id |-> id,
     source |-> [channel |-> event.channel, thread_ts |-> NormalizerThreadTs(event),
                 user_id |-> event.user, username |-> username],
     message |-> [text |-> CleanBotMentions(event.text), raw_text |-> event.text],
     context |-> [conversation_id |-> NormalizerConversationId(event)]]

ReplyText == <<Word("done")>>
ErrorText == <<Word("Sorry")>>

AgentResponse(request, status, text) ==
    [id |-> request.id, status |-> status,
     reply |-> [text |-> text, channel |-> request.source.channel,
                thread_ts |-> request.source.thread_ts]]

\* mutant: the agent returns its reply without saving it to the transcript
EngineerHandleReplyUnsaved(request, store, llm) ==
    LET conv == request.context.conversation_id IN
    IF ~Loadable(HistoryLoad(store, conv)) \/ llm = "fail"
    THEN [response |-> AgentResponse(request, "error", ErrorText), store |-> store]
    ELSE [response |-> AgentResponse(request, "completed", ReplyText), store |-> store]

\* Engineer.handle: the response and the store it leaves, given what the
\* language model does ("reply", "fail")
EngineerHandle(request, store, llm) ==
    LET conv == request.context.conversation_id IN
    IF ~Loadable(HistoryLoad(store, conv)) \/ llm = "fail"
    THEN [response |-> AgentResponse(request, "error", ErrorText), store |-> store]
    ELSE [response |-> AgentResponse(request, "completed", ReplyText),
          store |-> HistoryAppend(store, conv, "assistant", ReplyText, "engineer")]

LlmOutcomes == {"reply", "fail"}
LookupOutcomes == {"ok", "api_error", "net_error"}

(***************************************************************************)
(* State machine                                                           *)
(***************************************************************************)
NoLocals == [username |-> "", request |-> <<>>, response |-> <<>>]

Call(name, data) == [call |-> name, data |-> data]

\* the gateway after construction: app.py sets bot_user_id from auth_test, or None
GwInit ==
    /\ bot_user_id \in {None, Some(BotId)}
    /\ pc = [d \in Deliveries |-> "idle"]
    /\ resp = [d \in Deliveries |-> NoResponse]
    /\ ev = [d \in Deliveries |-> NoTask]
    /\ trace = [d \in Deliveries |-> <<>>]
    /\ loc = [d \in Deliveries |-> NoLocals]
    /\ loop = 0
    /\ transcript = [c \in Conversations |-> <<>>]
    /\ gate = [d \in Deliveries |-> ""]
    /\ req = [d \in Deliveries |-> NoRequest]
    /\ at = [d \in Deliveries |-> 0 - 1]

NoCall == [op |-> "", id |-> <<>>, res |-> <<>>, at |-> 0, added |-> <<>>]

Init ==
    /\ now = 0
    /\ cache = <<>>
    /\ GwInit
    /\ vin = <<>>
    /\ vout = ""
    /\ cret = NoCall

harness == <<vin, vout, cret>>

\* time passes
Tick ==
    /\ \E delta \in TickDeltas :
         /\ now + delta <= MaxTime
         /\ now' = now + delta
    /\ UNCHANGED <<cache, gwvars, harness>>

\* a delivery carrying one of the requests rs reaches the server; its body is
\* being read
ArriveWith(d, rs) ==
    /\ pc[d] = "idle"
    /\ pc' = [pc EXCEPT ![d] = "recv"]
    /\ \E r \in rs : req' = [req EXCEPT ![d] = r]
    /\ UNCHANGED <<now, bot_user_id, cache, resp, ev, trace, loc, loop, transcript,
                   gate, at, harness>>

Arrive(d) == ArriveWith(d, Requests(now))

\* handle_event runs from the parsed body to its return without awaiting; the
\* response is sent, and the background task, if any, is left to run after it
Admit(d) ==
    /\ pc[d] = "recv"
    /\ loop = 0
    /\ LET o == HandleEvent(req[d], cache, now, bot_user_id) IN
         /\ cache' = o.cache
         /\ resp' = [resp EXCEPT ![d] = o.resp]
         /\ gate' = [gate EXCEPT ![d] = o.gate]
         /\ ev' = [ev EXCEPT ![d] = o.task]
         /\ pc' = [pc EXCEPT ![d] = IF o.gate = "acknowledged" THEN "acked" ELSE "closed"]
    /\ at' = [at EXCEPT ![d] = now]
    /\ UNCHANGED <<now, bot_user_id, trace, loc, loop, transcript, req, harness>>

\* mutant: the task ends without giving the event loop back
FinishHoldingLoop(d, how) ==
    /\ pc' = [pc EXCEPT ![d] = how]
    /\ ev' = [ev EXCEPT ![d] = NoTask]
    /\ loc' = [loc EXCEPT ![d] = NoLocals]
    /\ loop' = loop

\* the task ends: its arguments and locals are dropped, the event loop is free
Finish(d, how) ==
    /\ pc' = [pc EXCEPT ![d] = how]
    /\ ev' = [ev EXCEPT ![d] = NoTask]
    /\ loc' = [loc EXCEPT ![d] = NoLocals]
    /\ loop' = 0

\* the task goes on to its next call
Continue(d, where) ==
    /\ pc' = [pc EXCEPT ![d] = where]
    /\ ev' = ev
    /\ loop' = loop

\* _process_event_async, first call: users_info for the author; any exception
\* leaves the raw user id as the name
BgLookup(d) ==
    /\ pc[d] = "acked"
    /\ loop = 0
    /\ loop' = d
    /\ \E out \in {"ok", "error"} :
         LET name == IF out = "ok" THEN UserName(ev[d].event.user) ELSE ev[d].event.user IN
         /\ loc' = [loc EXCEPT ![d].username = name]
         /\ trace' = [trace EXCEPT ![d] = Append(@, Call("users_info", <<>>))]
    /\ pc' = [pc EXCEPT ![d] = "looked_up"]
    /\ UNCHANGED <<now, bot_user_id, cache, resp, ev, transcript, gate, req, at, harness>>

\* chat_history.append of the user's cleaned message, then the should_respond branch
BgAppend(d) ==
    /\ pc[d] = "looked_up"
    /\ \/ /\ transcript' = HistoryAppend(transcript, ConversationId(ev[d].event), "user",
                                         CleanBotMentions(ev[d].event.text), loc[d].username)
          /\ trace' = [trace EXCEPT ![d] = Append(@, Call("append", <<"ok">>))]
          /\ IF ev[d].should_respond
             THEN Continue(d, "saved") /\ loc' = loc
             ELSE Finish(d, "done")
       \/ /\ transcript' = transcript
          /\ trace' = [trace EXCEPT ![d] = Append(@, Call("append", <<"OSError">>))]
          /\ Finish(d, "failed")
    /\ UNCHANGED <<now, bot_user_id, cache, resp, gate, req, at, harness>>

\* normalizer.normalize: users_info again; only SlackApiError is caught
BgNormalize(d) ==
    /\ pc[d] = "saved"
    /\ \E out \in LookupOutcomes :
         /\ trace' = [trace EXCEPT ![d] =
                Append(@, Call("users_info", IF out = "net_error" THEN <<out>> ELSE <<>>))]
         /\ IF out = "net_error"
            THEN Finish(d, "failed")
            ELSE /\ loc' = [loc EXCEPT ![d].request =
                       Normalize(ev[d].event, d,
                                 IF out = "ok" THEN UserName(ev[d].event.user) ELSE "unknown")]
                 /\ Continue(d, "normalized")
    /\ UNCHANGED <<now, bot_user_id, cache, resp, transcript, gate, req, at, harness>>

\* mutant: a failed forward is turned into an error notice that is posted
ForwardFailedPostsNotice(d, kind) ==
    /\ trace' = [trace EXCEPT ![d] = Append(@, Call("forward", <<kind>>))]
    /\ loc' = [loc EXCEPT ![d].response = AgentResponse(loc[d].request, "error", ErrorText)]
    /\ Continue(d, "forwarded")

\* forward_request raises HTTPException(502); _process_event_async catches it,
\* logs "Error processing event" and ends
ForwardFailed(d, kind) ==
    /\ trace' = [trace EXCEPT ![d] = Append(@, Call("forward", <<kind>>))]
    /\ Finish(d, "failed")

\* forwarder.forward_request: one POST to the agent service
BgForward(d) ==
    /\ pc[d] = "normalized"
    /\ \/ \* the service answers 200 with a completed or an error response
          \E llm \in LlmOutcomes :
            LET a == EngineerHandle(loc[d].request, transcript, llm) IN
            /\ transcript' = a.store
            /\ loc' = [loc EXCEPT ![d].response = a.response]
            /\ trace' = [trace EXCEPT ![d] = Append(@, Call("forward", <<"ok">>))]
            /\ Continue(d, "forwarded")
       \/ \* connection error or non-success status: the service did nothing
          /\ transcript' = transcript
          /\ ForwardFailed(d, "unavailable")
       \/ \* timeout: the service completes on its own and its answer is lost
          /\ transcript' = EngineerHandle(loc[d].request, transcript, "reply").store
          /\ ForwardFailed(d, "timeout")
    /\ UNCHANGED <<now, bot_user_id, cache, resp, gate, req, at, harness>>

\* mutant: a post that fails is tried again
BgPostRetrying(d) ==
    /\ pc[d] = "forwarded"
    /\ LET reply == loc[d].response.reply IN
       \/ /\ trace' = [trace EXCEPT ![d] =
                 Append(@, Call("post", <<"ok", reply.channel, reply.thread_ts, reply.text>>))]
          /\ Finish(d, "done")
       \/ /\ trace' = [trace EXCEPT ![d] =
                 Append(@, Call("post", <<"SlackApiError", reply.channel, reply.thread_ts,
                                         reply.text>>))]
          /\ Continue(d, "forwarded")
          /\ loc' = loc
    /\ UNCHANGED <<now, bot_user_id, cache, resp, transcript, gate, req, at, harness>>

\* responder.post_message: one chat_postMessage
BgPost(d) ==
    /\ pc[d] = "forwarded"
    /\ LET reply == loc[d].response.reply IN
       \/ /\ trace' = [trace EXCEPT ![d] =
                 Append(@, Call("post", <<"ok", reply.channel, reply.thread_ts, reply.text>>))]
          /\ Finish(d, "done")
       \/ /\ trace' = [trace EXCEPT ![d] =
                 Append(@, Call("post", <<"SlackApiError", reply.channel, reply.thread_ts,
                                         reply.text>>))]
          /\ Finish(d, "failed")
    /\ UNCHANGED <<now, bot_user_id, cache, resp, transcript, gate, req, at, harness>>

Background(d) == BgLookup(d) \/ BgAppend(d) \/ BgNormalize(d) \/ BgForward(d) \/ BgPost(d)

Next ==
    \/ Tick
    \/ \E d \in Deliveries : Arrive(d)
    \/ \E d \in Deliveries : Admit(d)
    \/ \E d \in Deliveries : BgLookup(d)
    \/ \E d \in Deliveries : BgAppend(d)
    \/ \E d \in Deliveries : BgNormalize(d)
    \/ \E d \in Deliveries : BgForward(d)
    \/ \E d \in Deliveries : BgPost(d)

Spec == Init /\ [][Next]_vars

(***************************************************************************)
(* Fairness: every blocking call of a background task returns (the forward *)
(* call has a timeout, the Slack client has one), and the event loop runs  *)
(* a task that is ready.                                                   *)
(***************************************************************************)
\* the deliveries that matter to the background phase: the platform's events
\* of users, and one request that is rejected
PlatformRequests(t) ==
    { Signed(t, EventBody(e)) : e \in UserEvents }
    \cup { Request(NumHeader(t), <<>>, EventBody(DefaultEvent)) }

PlatformArrive(d) == ArriveWith(d, PlatformRequests(now))

FairNext ==
    \/ Tick
    \/ \E d \in Deliveries : PlatformArrive(d)
    \/ \E d \in Deliveries : Admit(d)
    \/ \E d \in Deliveries : BgLookup(d)
    \/ \E d \in Deliveries : BgAppend(d)
    \/ \E d \in Deliveries : BgNormalize(d)
    \/ \E d \in Deliveries : BgForward(d)
    \/ \E d \in Deliveries : BgPost(d)

FairSpec ==
    /\ Init
    /\ [][FairNext]_vars
    /\ \A d \in Deliveries : WF_vars(Background(d))

(***************************************************************************)
(* Harness for SlackRequestVerifier.verify as a function of its arguments  *)
(* and the clock                                                           *)
(***************************************************************************)
VerifyClock == 1000

VerifyBodies == {EventBody(DefaultEvent), ChallengeBody}

VerifyHeaders ==
    { NumHeader(VerifyClock + k) : k \in {0 - 301, 0 - 300, 0 - 299, 0, 300, 301} }
    \cup {PaddedHeader(VerifyClock), EmptyHeader, JunkHeader}

VerifySecrets == {SigningSecret, "other"}

\* signature headers: every HMAC of the bounded inputs, a bare prefix, nothing
VerifySignatures ==
    { MySignature(k, h, b) : k \in VerifySecrets, h \in VerifyHeaders, b \in VerifyBodies }
    \cup { <<"v0=">>, <<>> }

VerifyInit ==
    /\ now = VerifyClock
    /\ cache = <<>>
    /\ GwInit
    /\ vin \in [secret : VerifySecrets, body : VerifyBodies,
                timestamp : VerifyHeaders, signature : VerifySignatures]
    /\ vout = ""
    /\ cret = NoCall

VerifyCall ==
    /\ vout = ""
    /\ vout' = Verify(vin.secret, vin.body, vin.timestamp, vin.signature, now)
    /\ UNCHANGED <<now, cache, gwvars, vin, cret>>

VerifyNext == VerifyCall

VerifySpec == VerifyInit /\ [][VerifyNext]_vars

(***************************************************************************)
(* Harness for SlackEventGateway._should_respond as a function of the      *)
(* event, called on a gateway in any start-up state                        *)
(***************************************************************************)
RespondTypes == {"app_mention", "message", "reaction_added", "member_joined_channel"}

RespondChannelKinds == {None, Some("channel"), Some("group"), Some("im"), Some("mpim")}

RespondEvents ==
    { Event(ty, ct, Some(0), o, text, st, None) :
        ty \in RespondTypes, ct \in RespondChannelKinds, o \in Origins,
        text \in {TextMention, TextPlain}, st \in {None, Some("bot_message")} }

RespondInit ==
    /\ now = 0
    /\ cache \in {<<>>, <<[id |-> EventId(DefaultEvent), ts |-> 0]>>}
    /\ GwInit
    /\ vin \in [event : RespondEvents]
    /\ vout = <<>>
    /\ cret = NoCall

\* should_respond = self._should_respond(event, event_type)
RespondCall ==
    /\ vout = <<>>
    /\ vout' = <<ShouldRespond(vin.event, vin.event.type)>>
    /\ UNCHANGED <<now, cache, gwvars, vin, cret>>

RespondNext == RespondCall

RespondSpec == RespondInit /\ [][RespondNext]_vars

(***************************************************************************)
(* Harness for ChatHistory: any sequence of append and load calls with the *)
(* arguments the gateway and the agent pass                                *)
(***************************************************************************)
HistoryConversations == {ConversationId(DefaultEvent), <<"C2", ThreadTs>>}

\* (role, content, name) of the append calls: a user's cleaned text, which is
\* empty for a message that is only a mention, and the agent's reply
HistoryMessages ==
    { [role |-> "user", content |-> CleanBotMentions(text), name |-> UserName(o.user)] :
        text \in {TextMention, TextOnlyMention}, o \in Origins }
    \cup { [role |-> "assistant", content |-> ReplyText, name |-> "engineer"] }

\* load: the BasicMessage list, or the pydantic ValidationError of the first
\* line that has no content
LoadResult(store, conversation_id) ==
    IF Loadable(store[conversation_id])
    THEN [raised |-> "", messages |-> HistoryLoad(store, conversation_id)]
    ELSE [raised |-> "ValidationError", messages |-> <<>>]

\* vin: the messages appended so far, per conversation
HistoryInit ==
    /\ now = 0
    /\ cache = <<>>
    /\ GwInit
    /\ vin = [c \in HistoryConversations |-> <<>>]
    /\ vout = <<>>
    /\ cret = NoCall

HistoryAppendCall(c, msg) ==
    /\ Len(transcript[c]) < MaxLines
    /\ transcript' = HistoryAppend(transcript, c, msg.role, msg.content, msg.name)
    /\ vin' = [vin EXCEPT ![c] = Append(@, msg)]
    /\ vout' = <<>>
    /\ UNCHANGED <<now, cache, bot_user_id, pc, resp, ev, trace, loc, loop, gate, req, at,
                   cret>>

HistoryLoadCall(c) ==
    /\ vout' = <<c, LoadResult(transcript, c)>>
    /\ UNCHANGED <<now, cache, gwvars, vin, cret>>

HistoryNext ==
    \/ \E c \in HistoryConversations, msg \in HistoryMessages : HistoryAppendCall(c, msg)
    \/ \E c \in HistoryConversations : HistoryLoadCall(c)

HistorySpec == HistoryInit /\ [][HistoryNext]_vars

(***************************************************************************)
(* Harness for EventCache: any sequence of calls under a clock that does   *)
(* not run backwards                                                       *)
(***************************************************************************)
CacheIds == {<<"app_mention", Some(0)>>, <<"message", Some(0)>>}

CacheTickDeltas == {150, 151}

\* cret.added: when each id was last added, None if never
NeverAdded == [i \in CacheIds |-> None]

CacheInit ==
    /\ now = 0
    /\ cache = <<>>
    /\ GwInit
    /\ vin = <<>>
    /\ vout = ""
    /\ cret = [NoCall EXCEPT !.added = NeverAdded]

CacheTick ==
    /\ \E delta \in CacheTickDeltas :
         /\ now + delta <= MaxTime
         /\ now' = now + delta
    /\ UNCHANGED <<cache, gwvars, harness>>

CacheHas(id) ==
    /\ cache' = HasEvent(cache, id, now).cache
    /\ cret' = [cret EXCEPT !.op = "has", !.id = id, !.at = now,
                            !.res = <<HasEvent(cache, id, now).found>>]
    /\ UNCHANGED <<now, gwvars, vin, vout>>

CacheAdd(id) ==
    /\ cache' = AddEvent(cache, id, now)
    /\ cret' = [cret EXCEPT !.op = "add", !.id = id, !.at = now, !.res = <<>>,
                            !.added[id] = Some(now)]
    /\ UNCHANGED <<now, gwvars, vin, vout>>

CacheGetAge(id) ==
    /\ cret' = [cret EXCEPT !.op = "get_age", !.id = id, !.at = now,
                            !.res = GetAge(cache, id, now)]
    /\ UNCHANGED <<now, cache, gwvars, vin, vout>>

CacheNext ==
    \/ CacheTick
    \/ \E id \in CacheIds : CacheHas(id)
    \/ \E id \in CacheIds : CacheAdd(id)
    \/ \E id \in CacheIds : CacheGetAge(id)

CacheSpec == CacheInit /\ [][CacheNext]_vars

(***************************************************************************)
(* Claims about verify (checked under VerifySpec)                          *)
(***************************************************************************)
\* "v0=" + hex(HMAC-SHA256(secret, "v0:" + timestamp + ":" + body)), as the claims state it
ExpectedSignature(secret, timestamp, body) ==
    <<"v0=", <<"hmac", secret, <<"v0", timestamp, body>>>>>>

VerifyReturned == vout # "" /\ vin.timestamp.kind \in {"num", "padded"}

HeaderDistance == Abs(now - vin.timestamp.val)

\* C4: verify returns false for every timestamp header more than 300 s from the
\* clock, in the past or in the future, whatever the signature; a header exactly
\* 300 s away is inside the window (a correct signature is then accepted).
C4_ReplayWindow ==
    VerifyReturned =>
        /\ HeaderDistance > 300 => vout = "false"
        /\ ( /\ HeaderDistance = 300
             /\ vin.signature = ExpectedSignature(vin.secret, vin.timestamp, vin.body) )
           => vout = "true"

\* a correctly signed request dated 301 s in the future has been rejected
C4_Witness ==
    /\ VerifyReturned
    /\ vin.timestamp.val - now = 301
    /\ vin.signature = ExpectedSignature(vin.secret, vin.timestamp, vin.body)
    /\ vout = "false"

\* C5: inside the window verify returns true exactly when the signature header is
\* the expected HMAC; changing the body, the timestamp or the signature of an
\* accepted triple makes verify return false.
C5_SignatureIff ==
    (VerifyReturned /\ HeaderDistance <= 300) =>
        /\ vout = "true" <=>
             vin.signature = ExpectedSignature(vin.secret, vin.timestamp, vin.body)
        /\ vout = "true" =>
             /\ \A b \in VerifyBodies \ {vin.body} :
                  Verify(vin.secret, b, vin.timestamp, vin.signature, now) = "false"
             /\ \A h \in {x \in VerifyHeaders : x.kind \in {"num", "padded"}} \ {vin.timestamp} :
                  Verify(vin.secret, vin.body, h, vin.signature, now) = "false"
             /\ \A g \in VerifySignatures \ {vin.signature} :
                  Verify(vin.secret, vin.body, vin.timestamp, g, now) = "false"

\* a triple whose header is not the clock itself has been accepted
C5_Witness ==
    /\ VerifyReturned
    /\ vout = "true"
    /\ vin.timestamp.val # now

\* C28: verify is total: for every body, timestamp header (empty and
\* non-numeric ones included) and signature header (an absent one included) it
\* returns a boolean, false for everything that is not authentically signed.
C28_VerifyTotal ==
    vout # "" =>
        /\ vout \in {"true", "false"}
        /\ vin.signature # ExpectedSignature(vin.secret, vin.timestamp, vin.body)
           => vout = "false"

(***************************************************************************)
(* Claims about EventCache (checked under CacheSpec)                       *)
(***************************************************************************)
\* C10: has(id) is false for an id never added; after add(id) at time t it is
\* true while fewer than TTL (300) seconds have elapsed since the latest add and
\* false once more than TTL seconds have elapsed since it.
C10_HasFollowsTtl ==
    cret.op = "has" =>
        LET a == cret.added[cret.id] IN
        /\ a = None => cret.res = <<FALSE>>
        /\ (a # None /\ cret.at - a[1] < 300) => cret.res = <<TRUE>>
        /\ (a # None /\ cret.at - a[1] > 300) => cret.res = <<FALSE>>

\* has has answered false for an id that was added more than TTL seconds before
C10_Witness ==
    /\ cret.op = "has"
    /\ cret.added[cret.id] # None
    /\ cret.at - cret.added[cret.id][1] > 300
    /\ cret.res = <<FALSE>>

\* has was the latest call and no time has passed since
JustAfterHas == cret.op = "has" /\ cret.at = now

\* C11: immediately after any has(id) call the cache holds no entry older than
\* the TTL, whatever its id, and every id added at most TTL seconds ago is still
\* held: ids added more than TTL ago are gone, the later ones answer true.
C11_SweepOnHas ==
    JustAfterHas =>
        /\ \A i \in 1..Len(cache) : now - cache[i].ts <= 300
        /\ \A id \in CacheIds :
             LET a == cret.added[id] IN
             /\ (a # None /\ now - a[1] <= 300) => id \in CacheKeys(cache)
             /\ (a # None /\ now - a[1] > 300) => id \notin CacheKeys(cache)
        /\ cret.res = <<cret.id \in CacheKeys(cache)>>

\* two ids were added; has on one has swept the older and kept the newer
C11_Witness ==
    /\ JustAfterHas
    /\ Len(cache) = 1
    /\ \E id1, id2 \in CacheIds :
         /\ cret.added[id1] # None /\ now - cret.added[id1][1] > 300
         /\ cret.added[id2] # None /\ now - cret.added[id2][1] <= 300
         /\ id1 \notin CacheKeys(cache)
         /\ id2 \in CacheKeys(cache)

\* this step is a call of add for an id the cache holds
AddOfPresent ==
    /\ cret' # cret
    /\ cret'.op = "add"
    /\ cret'.id \in CacheKeys(cache)

\* C22: add(id) of an id that is already present leaves the entry's recorded
\* timestamp unchanged, so its age and its expiry keep counting from the
\* first add.
C22_Step ==
    AddOfPresent =>
        /\ cret'.id \in CacheKeys(cache')
        /\ CacheTs(cache', cret'.id) = CacheTs(cache, cret'.id)
        /\ GetAge(cache', cret'.id, now) = GetAge(cache, cret'.id, now)

C22_AddIdempotent == [][C22_Step]_vars

\* C23: an entry older than the TTL is treated as absent by every read, also
\* when no sweep has run since it expired: has answers false and get_age
\* answers None for an id whose latest add is more than TTL seconds back.
C23_ExpiredReadsAbsent ==
    LET a == cret.added[cret.id] IN
    (cret.op \in {"has", "get_age"} /\ a # None /\ cret.at - a[1] > 300)
    => /\ cret.op = "has" => cret.res = <<FALSE>>
       /\ cret.op = "get_age" => cret.res = None

\* C24: the entries of the cache are ordered oldest first: from first to last
\* the recorded timestamps never decrease, after any sequence of calls, an add of
\* an id that is present included.
C24_OldestFirst ==
    \A i, j \in 1..Len(cache) : i < j => cache[i].ts <= cache[j].ts

(***************************************************************************)
(* Claims about _should_respond (checked under RespondSpec)                *)
(***************************************************************************)
\* C12: the response-eligibility decision is true for every app_mention event,
\* true for a message event whose channel kind is im or mpim, and false for
\* every other message event and every other event type, whatever the rest of
\* the event and the state of the gateway; the call changes no gateway state.
C12_Table ==
    vout # <<>> =>
        vout[1] = ( \/ vin.event.type = "app_mention"
                    \/ /\ vin.event.type = "message"
                       /\ vin.event.channel_type \in {Some("im"), Some("mpim")} )

C12_NoEffect == vout' # vout => UNCHANGED <<cache, gwvars>>

C12_EligibilityIsPure == []C12_Table /\ [][C12_NoEffect]_vars

\* a group direct message has been found eligible on a gateway with a cache entry
C12_Witness ==
    /\ vout = <<TRUE>>
    /\ vin.event.type = "message"
    /\ vin.event.channel_type = Some("mpim")
    /\ cache # <<>>

(***************************************************************************)
(* Claims about ChatHistory (checked under HistorySpec)                    *)
(***************************************************************************)
\* the message load returns for an appended message: same role and text, the
\* name in its stored spelling
AsLoaded(msg) ==
    [role |-> msg.role,
     name |-> IF msg.name = "" THEN None
              ELSE Some(IF msg.name = "j.doe" THEN "j_doe" ELSE msg.name),
     content |-> Some(msg.content)]

\* C20: after any sequence of appends, load of a conversation succeeds and
\* returns exactly the messages appended to it, one per append, in insertion
\* order, for every text the gateway can append, the empty one included.
C20_LoadReturnsAppended ==
    vout # <<>> =>
        /\ vout[2].raised = ""
        /\ Len(vout[2].messages) = Len(vin[vout[1]])
        /\ \A i \in 1..Len(vout[2].messages) :
             vout[2].messages[i] = AsLoaded(vin[vout[1]][i])

(***************************************************************************)
(* Claims about the gateway (checked under Spec, C9 under FairSpec)        *)
(***************************************************************************)
Payload(d) == req[d].body.payload
Ev(d) == Payload(d).event

\* the names of the collaborator calls of a background task, in order
Calls(d) == [i \in 1..Len(trace[d]) |-> trace[d][i].call]

\* the same without the user lookups
WorkCalls(d) == SelectSeq(Calls(d), LAMBDA c : c # "users_info")

LastCall(d) == trace[d][Len(trace[d])]

CallFailed(c) == c.data # <<>> /\ c.data[1] # "ok"

\* this step is the run of handle_event for delivery d
AdmitStep(d) == pc[d] = "recv" /\ pc'[d] # "recv"

VerifiedNow(d) ==
    /\ req[d].body.wellformed
    /\ Verify(SigningSecret, req[d].body, req[d].timestamp, req[d].signature, now) = "true"

IsCallback(d) == Payload(d).type = "event_callback" /\ Ev(d).ts # None

FreshNow(d) == now - Ev(d).ts[1] <= 60

SameIdentity(d1, d2) == Ev(d1).type = Ev(d2).type /\ Ev(d1).ts = Ev(d2).ts

\* the conversation and the transcript record of d's event, as the claims state them
ClaimedConversation(d) ==
    <<Ev(d).channel, IF Ev(d).thread_ts = None THEN Ev(d).ts[1] ELSE Ev(d).thread_ts[1]>>

ClaimedContent(d) ==
    LET words == SelectSeq(Ev(d).text, LAMBDA k : ~k.m) IN
    IF words = <<>> THEN None ELSE Some(words)

UserMessageSaved(d) ==
    \E i \in 1..Len(transcript[ClaimedConversation(d)]) :
        /\ transcript[ClaimedConversation(d)][i].role = "user"
        /\ transcript[ClaimedConversation(d)][i].content = ClaimedContent(d)

\* a delivery that ended in the admission path never gets background work
ClosedStaysClosed ==
    \A d \in Deliveries :
        pc[d] = "closed" => pc'[d] = "closed" /\ trace'[d] = <<>> /\ ev'[d] = NoTask

\* a finished background task makes no further call
FinishedStaysFinished ==
    \A d \in Deliveries :
        pc[d] \in {"done", "failed"} => pc'[d] = pc[d] /\ trace'[d] = trace[d]

\* d got past the dedup gate: its identity was inserted
PassedDedup(d) ==
    \/ gate[d] \in {"acknowledged", "bot", "mention_collision"}
    \/ gate[d] = "unknown" /\ Payload(d).type = "event_callback"

\* an event with the identity of d's event has been inserted by an earlier
\* delivery, at most TTL seconds ago
SeenWithinTtl(d) ==
    \E d0 \in Deliveries \ {d} :
        /\ PassedDedup(d0)
        /\ SameIdentity(d0, d)
        /\ now - at[d0] <= 300

\* C1: a verified, fresh event-callback delivery whose identity (type and
\* timestamp) is in the cache within the TTL is answered {"ok": true} and causes
\* no transcript append and no collaborator call, then or later, whatever its
\* channel, text and author.
C1_Step ==
    \A d \in Deliveries :
        (AdmitStep(d) /\ VerifiedNow(d) /\ IsCallback(d) /\ FreshNow(d) /\ SeenWithinTtl(d))
        => /\ resp'[d] = OkResponse
           /\ pc'[d] = "closed"
           /\ ev'[d] = NoTask
           /\ transcript' = transcript
           /\ trace' = trace

C1_DuplicateSuppressed == [][C1_Step /\ ClosedStaysClosed]_vars

\* a second delivery with the identity of a scheduled one, but another channel,
\* text and author, has been answered ok as a duplicate
C1_Witness ==
    \E d1, d2 \in Deliveries :
        /\ d1 # d2
        /\ gate[d1] = "acknowledged"
        /\ gate[d2] = "duplicate" /\ resp[d2] = OkResponse /\ trace[d2] = <<>>
        /\ SameIdentity(d1, d2)
        /\ Ev(d1).channel # Ev(d2).channel
        /\ Ev(d1).text # Ev(d2).text
        /\ Ev(d1).user # Ev(d2).user

\* C2: of two deliveries of the same event handled within the TTL of each other,
\* at most one passes the dedup gate; the identity is in the cache when
\* handle_event returns, before any background work of the delivery.
C2_AtMostOne ==
    \A d1, d2 \in Deliveries :
        (d1 # d2 /\ PassedDedup(d1) /\ PassedDedup(d2) /\ SameIdentity(d1, d2))
        => Abs(at[d1] - at[d2]) > 300

C2_InsertFirst ==
    \A d \in Deliveries :
        (AdmitStep(d) /\ IsCallback(d) /\ gate'[d] = "acknowledged")
        => /\ \E i \in 1..Len(cache') : cache'[i].id = <<Ev(d).type, Ev(d).ts>>
           /\ trace'[d] = <<>>

C2_AtomicDedup == []C2_AtMostOne /\ [][C2_InsertFirst]_vars

\* a delivery has been refused as a duplicate while the background work of the
\* delivery that passed the gate had not started
C2_Witness ==
    \E d1, d2 \in Deliveries :
        /\ d1 # d2
        /\ pc[d1] = "acked" /\ trace[d1] = <<>>
        /\ gate[d2] = "duplicate"
        /\ SameIdentity(d1, d2)
        /\ at[d1] = at[d2]

\* C3: a delivery whose verification returns false is answered 401 and has no
\* other effect: the cache is unchanged, nothing is scheduled, and no transcript
\* append or collaborator call results, then or later.
C3_Step ==
    \A d \in Deliveries :
        ( /\ AdmitStep(d)
          /\ req[d].body.wellformed
          /\ Verify(SigningSecret, req[d].body, req[d].timestamp, req[d].signature, now)
               = "false" )
        => /\ resp'[d].status = 401
           /\ cache' = cache
           /\ pc'[d] = "closed"
           /\ ev'[d] = NoTask
           /\ transcript' = transcript
           /\ trace' = trace

C3_UnauthorizedNoEffect == [][C3_Step /\ ClosedStaysClosed]_vars

\* an event callback with a wrong signature has been answered 401
C3_Witness ==
    \E d \in Deliveries :
        /\ pc[d] = "closed"
        /\ resp[d].status = 401
        /\ Payload(d).type = "event_callback"
        /\ req[d].signature # ExpectedSignature(SigningSecret, req[d].timestamp, req[d].body)
        /\ req[d].signature # <<>>

\* the user lines of a conversation
UserLines(lines) == SelectSeq(lines, LAMBDA l : l.role = "user")

\* this step is a collaborator call of d's background task
CallStep(d) == trace'[d] # trace[d]

NewCall(d) == trace'[d][Len(trace'[d])]

\* this step appends one line, the user's cleaned message, to d's conversation
\* and leaves every other conversation alone
AppendsUserMessage(d) ==
    LET c == ClaimedConversation(d) IN
    /\ Len(transcript'[c]) = Len(transcript[c]) + 1
    /\ SubSeq(transcript'[c], 1, Len(transcript[c])) = transcript[c]
    /\ transcript'[c][Len(transcript'[c])].role = "user"
    /\ transcript'[c][Len(transcript'[c])].content = ClaimedContent(d)
    /\ \A c2 \in Conversations \ {c} : transcript'[c2] = transcript[c2]

\* this step adds no user line to any conversation
NoUserLineAdded ==
    \A c \in Conversations : UserLines(transcript'[c]) = UserLines(transcript[c])

\* the append call of d's task writes the user's message once; no other call of
\* the task writes a user line
OneUserMessage(d) ==
    CallStep(d) =>
        IF NewCall(d) = Call("append", <<"ok">>)
        THEN AppendsUserMessage(d)
        ELSE NoUserLineAdded

\* d carries an event callback with a timestamped event
CarriesEvent(d) ==
    /\ pc[d] # "idle"
    /\ req[d].body.wellformed
    /\ IsCallback(d)

\* a mention event of a user in a channel of kind "channel"
IsChannelMention(d) ==
    /\ CarriesEvent(d)
    /\ Ev(d).type = "app_mention"
    /\ Ev(d).channel_type = Some("channel")
    /\ Ev(d).subtype # Some("bot_message")
    /\ Ev(d).bot_id = None

\* C6: a verified, fresh, previously unseen mention event in a channel of kind
\* "channel" is answered {"ok": true} and scheduled; its background phase
\* appends exactly one user message, then makes one forward call, then one post
\* call, in that order, and with every collaborator succeeding it completes.
C6_Admitted ==
    \A d \in Deliveries :
        (AdmitStep(d) /\ VerifiedNow(d) /\ IsChannelMention(d) /\ FreshNow(d)
           /\ ~SeenWithinTtl(d))
        => /\ resp'[d] = OkResponse
           /\ pc'[d] = "acked"
           /\ trace'[d] = <<>>

C6_Order ==
    \A d \in Deliveries :
        (IsChannelMention(d) /\ gate[d] = "acknowledged")
        => /\ \E n \in 0..3 : WorkCalls(d) = SubSeq(<<"append", "forward", "post">>, 1, n)
           /\ pc[d] = "done" => WorkCalls(d) = <<"append", "forward", "post">>
           /\ pc[d] = "failed" => CallFailed(LastCall(d))

C6_Step ==
    \A d \in Deliveries :
        (IsChannelMention(d) /\ gate[d] = "acknowledged") => OneUserMessage(d)

IsPublicChatter(d) ==
    /\ CarriesEvent(d)
    /\ gate[d] = "acknowledged"
    /\ Ev(d).type = "message"
    /\ Ev(d).channel_type \notin {Some("im"), Some("mpim")}
    /\ ~ContainsMention(Ev(d).text, BotId)

\* C7: for an admitted "message" event in a public channel (kind neither im nor
\* mpim) that does not mention the bot, the background phase appends the user's
\* message to the transcript and makes no forward call and no post call.
C7_Calls ==
    \A d \in Deliveries :
        IsPublicChatter(d)
        => /\ \A i \in 1..Len(trace[d]) : trace[d][i].call \notin {"forward", "post"}
           /\ pc[d] = "done" => WorkCalls(d) = <<"append">> /\ UserMessageSaved(d)
           /\ pc[d] = "failed" => LastCall(d) = Call("append", <<"OSError">>)

C7_Step == \A d \in Deliveries : IsPublicChatter(d) => OneUserMessage(d)

C7_RecordOnly == []C7_Calls /\ [][C7_Step]_vars

\* a plain message in a public channel has been recorded and its task is over
C7_Witness ==
    \E d \in Deliveries :
        /\ IsPublicChatter(d)
        /\ pc[d] = "done"
        /\ WorkCalls(d) = <<"append">>
        /\ UserMessageSaved(d)

\* the forward call of d's task failed
ForwardHasFailed(d) ==
    \E i \in 1..Len(trace[d]) : trace[d][i].call = "forward" /\ CallFailed(trace[d][i])

\* C8: when the forward call fails (downstream error, non-success status or
\* timeout), the transcript already holds the user's message, the failed call is
\* the task's last (no post call), the task has ended in its logged-failure
\* outcome and holds the event loop no more, and the caller's response stays
\* {"ok": true}.
C8_Failed ==
    \A d \in Deliveries :
        ForwardHasFailed(d)
        => /\ LastCall(d).call = "forward"
           /\ \A i \in 1..Len(trace[d]) : trace[d][i].call # "post"
           /\ pc[d] = "failed"
           /\ loop # d
           /\ resp[d] = OkResponse
           /\ UserMessageSaved(d)

C8_Quiet ==
    \A d \in Deliveries :
        pc[d] \notin {"idle", "recv"} => resp'[d] = resp[d]

C8_ForwardFailure == []C8_Failed /\ [][C8_Quiet /\ FinishedStaysFinished]_vars

\* a forward call has failed as unavailable after the user's message was saved
C8_Witness ==
    \E d \in Deliveries :
        /\ pc[d] = "failed"
        /\ LastCall(d) = Call("forward", <<"unavailable">>)
        /\ UserMessageSaved(d)
        /\ resp[d] = OkResponse

\* C9: the success response of a scheduled delivery is returned before any step
\* of its background phase runs, and a scheduled background phase always reaches
\* a terminal outcome: completed, or failure logged.
C9_ResponseFirst ==
    \A d \in Deliveries :
        (trace[d] # <<>> \/ pc[d] \in {"looked_up", "saved", "normalized", "forwarded",
                                       "done", "failed"})
        => resp[d] = OkResponse /\ gate[d] = "acknowledged"

C9_Terminates ==
    \A d \in Deliveries : (pc[d] = "acked") ~> (pc[d] \in {"done", "failed"})

C9_AckThenRunToEnd == []C9_ResponseFirst /\ C9_Terminates

\* a delivery was scheduled behind a task that held the event loop, and both
\* tasks have ended
C9_Witness ==
    \E d1, d2 \in Deliveries :
        /\ d1 # d2
        /\ at[d1] = at[d2]
        /\ pc[d1] = "failed"
        /\ pc[d2] = "done"
        /\ Len(trace[d2]) >= 4

\* this step acknowledges d and ends it: ok, nothing scheduled, no append or call
AckedAndDropped(d) ==
    /\ resp'[d] = OkResponse
    /\ pc'[d] = "closed"
    /\ ev'[d] = NoTask
    /\ transcript' = transcript
    /\ trace' = trace

\* C13: a verified event callback whose event is more than 60 seconds old (clock
\* minus the event's own ts) is answered {"ok": true} and never processed, also
\* when its request timestamp header is inside the 300-second replay window.
C13_Step ==
    \A d \in Deliveries :
        (AdmitStep(d) /\ VerifiedNow(d) /\ IsCallback(d) /\ now - Ev(d).ts[1] > 60)
        => AckedAndDropped(d) /\ cache' = cache

C13_StaleDropped == [][C13_Step /\ ClosedStaysClosed]_vars

\* an event 61 seconds old, in a request signed at the current clock, has been
\* acknowledged at the freshness gate
C13_Witness ==
    \E d \in Deliveries :
        /\ gate[d] = "stale"
        /\ resp[d] = OkResponse
        /\ pc[d] = "closed"
        /\ at[d] - Ev(d).ts[1] = 61
        /\ req[d].timestamp = NumHeader(at[d])

\* C14: a verified event callback whose event carries a bot-origin marker
\* (subtype bot_message, or a bot_id) is answered {"ok": true} and never reaches
\* the background phase: no append, forward or post is made for it.
C14_Step ==
    \A d \in Deliveries :
        ( /\ AdmitStep(d) /\ VerifiedNow(d) /\ IsCallback(d)
          /\ (Ev(d).subtype = Some("bot_message") \/ Ev(d).bot_id # None) )
        => AckedAndDropped(d)

C14_BotDropped == [][C14_Step /\ ClosedStaysClosed]_vars

\* a mention event with a bot_id has been acknowledged at the bot gate
C14_Witness ==
    \E d \in Deliveries :
        /\ gate[d] = "bot"
        /\ resp[d] = OkResponse
        /\ pc[d] = "closed"
        /\ Ev(d).bot_id # None
        /\ Ev(d).type = "app_mention"

\* C15: a verified "message" event callback whose text contains a mention of
\* this bot's own user id is answered {"ok": true} and never reaches the
\* background phase, for every bot_user_id that start-up can leave in the gateway.
C15_Step ==
    \A d \in Deliveries :
        ( /\ AdmitStep(d) /\ VerifiedNow(d) /\ IsCallback(d)
          /\ Ev(d).type = "message"
          /\ ContainsMention(Ev(d).text, BotId) )
        => AckedAndDropped(d)

C15_MentionCollisionDropped == [][C15_Step /\ ClosedStaysClosed]_vars

\* C16: a handshake payload (type url_verification) has its challenge echoed,
\* with no cache access and no background work, if and only if it passed
\* signature verification; an unverified handshake is rejected with 401 and its
\* challenge is not echoed.
C16_Step ==
    \A d \in Deliveries :
        (AdmitStep(d) /\ req[d].body.wellformed /\ Payload(d).type = "url_verification")
        => /\ cache' = cache
           /\ pc'[d] = "closed"
           /\ ev'[d] = NoTask
           /\ transcript' = transcript
           /\ trace' = trace
           /\ IF VerifiedNow(d)
              THEN resp'[d] = [status |-> 200, body |-> <<"challenge", Payload(d).challenge>>]
              ELSE resp'[d].status = 401 /\ resp'[d].body[1] # "challenge"

C16_HandshakeIffVerified == [][C16_Step /\ ClosedStaysClosed]_vars

\* C17: a delivery whose body is not well-formed JSON is answered with a client
\* error (HTTP 400), with no cache change and no background work scheduled.
C17_Step ==
    \A d \in Deliveries :
        (AdmitStep(d) /\ ~req[d].body.wellformed)
        => /\ resp'[d].status = 400
           /\ cache' = cache
           /\ pc'[d] = "closed"
           /\ ev'[d] = NoTask
           /\ transcript' = transcript
           /\ trace' = trace

C17_MalformedIsClientError == [][C17_Step /\ ClosedStaysClosed]_vars

\* C18: the conversation id is the channel with the thread root, the thread root
\* being the event's thread_ts when present and its own ts otherwise; the
\* gateway's background phase (which keys the transcript append) and the
\* normalizer (which keys the forwarded request) compute the same id.
C18_Normalized ==
    \A d \in Deliveries :
        pc[d] \in {"normalized", "forwarded"}
        => /\ loc[d].request.context.conversation_id = ClaimedConversation(d)
           /\ loc[d].request.source.thread_ts = ClaimedConversation(d)[2]
           /\ loc[d].request.context.conversation_id = ConversationId(Ev(d))

C18_Appended ==
    \A d \in Deliveries :
        (CallStep(d) /\ NewCall(d) = Call("append", <<"ok">>)) => AppendsUserMessage(d)

C18_ConversationId == []C18_Normalized /\ [][C18_Appended]_vars

\* an event in a thread has been saved under, and normalized to, the
\* conversation of its channel and thread root
C18_Witness ==
    \E d \in Deliveries :
        /\ pc[d] = "normalized"
        /\ Ev(d).thread_ts # None
        /\ Ev(d).thread_ts # Ev(d).ts
        /\ loc[d].request.context.conversation_id = <<Ev(d).channel, Ev(d).thread_ts[1]>>
        /\ transcript[<<Ev(d).channel, Ev(d).thread_ts[1]>>] # <<>>
        /\ transcript[<<Ev(d).channel, Ev(d).ts[1]>>] = <<>>

\* the latest call of d's task is the user lookup of normalize
AfterNormalizeLookup(d) ==
    /\ trace[d] # <<>>
    /\ LastCall(d).call = "users_info"
    /\ \E i \in 1..Len(trace[d]) : trace[d][i].call = "append"

\* C19: a failure of the user lookup, of whatever kind, never aborts normalize:
\* normalize returns a request (with the author name "unknown" when the lookup
\* failed) and the reply pipeline goes on to the forward step.
C19_LookupNeverAborts ==
    \A d \in Deliveries :
        AfterNormalizeLookup(d)
        => /\ pc[d] = "normalized"
           /\ CallFailed(LastCall(d)) => loc[d].request.source.username = "unknown"

\* the post calls of d's task
Posts(d) == SelectSeq(trace[d], LAMBDA c : c.call = "post")

Forwards(d) == SelectSeq(trace[d], LAMBDA c : c.call = "forward")

\* C21: every reply is posted into the originating conversation: the single
\* outbound post of an event targets the event's channel and its thread root
\* (thread_ts if present, else ts), and the response the responder consumes
\* carries the id of the request forwarded for that event.
C21_ReplyToOrigin ==
    \A d \in Deliveries :
        /\ Len(Posts(d)) <= 1
        /\ \A i \in 1..Len(Posts(d)) :
             /\ Posts(d)[i].data[2] = Ev(d).channel
             /\ Posts(d)[i].data[3] =
                  (IF Ev(d).thread_ts = None THEN Ev(d).ts[1] ELSE Ev(d).thread_ts[1])
        /\ pc[d] = "forwarded" =>
             /\ loc[d].response.id = loc[d].request.id
             /\ loc[d].request.id = d
             /\ loc[d].response.reply.channel = Ev(d).channel

\* a reply to an event inside a thread has been posted under the thread root
C21_Witness ==
    \E d \in Deliveries :
        /\ pc[d] = "done"
        /\ Len(Posts(d)) = 1
        /\ Ev(d).thread_ts # None
        /\ Ev(d).thread_ts # Ev(d).ts
        /\ Posts(d)[1].data = <<"ok", Ev(d).channel, Ev(d).thread_ts[1], ReplyText>>

\* C25: there are no retries in the reply path: a delivery's task makes at most
\* one forward call and at most one post call, whatever their outcome; a failed
\* forward or a failed post is the last call of the task, which ends as failed
\* (logged) and makes no further call.
C25_Single ==
    \A d \in Deliveries :
        /\ Len(Forwards(d)) <= 1
        /\ Len(Posts(d)) <= 1
        /\ \A i \in 1..Len(trace[d]) :
             (trace[d][i].call \in {"forward", "post"} /\ CallFailed(trace[d][i]))
             => i = Len(trace[d]) /\ pc[d] = "failed" /\ loop # d

C26_AdmissionNeverBlocked ==
    \A d \in Deliveries : pc[d] = "recv" => ENABLED Admit(d)

\* the append call of d's task succeeded
AppendSucceeded(d) ==
    \E i \in 1..Len(trace[d]) : trace[d][i] = Call("append", <<"ok">>)

\* C27: when reply generation fails after the transcript append succeeded (in
\* normalize, in forward, in the agent's transcript load or language-model call,
\* or in the post), the user's message stays in the transcript and nothing is
\* posted to the conversation: no reply and no error notice.
C27_FailureIsSilent ==
    \A d \in Deliveries :
        /\ \A i \in 1..Len(Posts(d)) : Posts(d)[i].data[4] # ErrorText
        /\ (pc[d] = "forwarded" /\ loc[d].response.status = "error") => ~ENABLED BgPost(d)
        /\ (pc[d] = "failed" /\ AppendSucceeded(d))
           => /\ UserMessageSaved(d)
              /\ \A i \in 1..Len(Posts(d)) : Posts(d)[i].data[1] # "ok"

\* d's event was handed to a background task
Scheduled(d) == gate[d] = "acknowledged"

\* C29: over any sequence of verified deliveries and any passage of time,
\* background processing is scheduled at most once per event identity, whatever
\* event timestamp the payloads carry.
C29_ScheduledOncePerIdentity ==
    \A d1, d2 \in Deliveries :
        (Scheduled(d1) /\ Scheduled(d2) /\ SameIdentity(d1, d2)) => d1 = d2

\* d's delivery gets as far as the dedup gate in this step
ReachesDedupGate(d) == AdmitStep(d) /\ VerifiedNow(d) /\ IsCallback(d) /\ FreshNow(d)

\* d's delivery ends before the dedup gate in this step: at the verify step, the
\* challenge step, the event-type gate or the freshness gate
EndsBeforeDedupGate(d) ==
    /\ AdmitStep(d)
    /\ req[d].body.wellformed
    /\ \/ resp'[d].status = 401
       \/ /\ VerifiedNow(d)
          /\ \/ Payload(d).type # "event_callback"
             \/ IsCallback(d) /\ ~FreshNow(d)

\* the cache holds an unexpired entry for the identity of d's event
HeldUnexpired(d) ==
    \E i \in 1..Len(cache) :
        cache[i].id = <<Ev(d).type, Ev(d).ts>> /\ now - cache[i].ts <= 300

\* C30: a delivery that ends at the verify step, the challenge step, the
\* event-type gate or the freshness gate leaves the cache exactly as it was and
\* schedules nothing; only deliveries that reach the dedup gate change the
\* cache; an identity that passes the dedup gate is inserted also when the
\* delivery is then dropped for bot origin, mention collision or event type.
C30_Step ==
    /\ \A d \in Deliveries :
         EndsBeforeDedupGate(d) => cache' = cache /\ pc'[d] = "closed" /\ ev'[d] = NoTask
    /\ cache' # cache => \E d \in Deliveries : ReachesDedupGate(d)
    /\ \A d \in Deliveries :
         (ReachesDedupGate(d) /\ ~HeldUnexpired(d))
         => \E i \in 1..Len(cache') :
               cache'[i] = [id |-> <<Ev(d).type, Ev(d).ts>>, ts |-> now]

C30_CacheFrame == [][C30_Step]_vars

\* an event of a type that is not processed has been dropped after the dedup
\* gate, and its identity is in the cache
C30_Witness ==
    \E d \in Deliveries :
        /\ pc[d] = "closed"
        /\ resp[d] = OkResponse
        /\ Payload(d).type = "event_callback"
        /\ Ev(d).type = "reaction_added"
        /\ \E i \in 1..Len(cache) :
              cache[i] = [id |-> <<"reaction_added", Ev(d).ts>>, ts |-> at[d]]

\* this step is the forward call of d's task
ForwardStep(d) == CallStep(d) /\ NewCall(d).call = "forward"

\* the text of d's event without the mentions
ClaimedText(d) == SelectSeq(Ev(d).text, LAMBDA k : ~k.m)

\* the messages the agent's load of conversation c returns hold the user's
\* message of d's event
LoadHoldsUserMessage(d, c) ==
    LET r == LoadResult(transcript, c) IN
    /\ r.raised = ""
    /\ \E i \in 1..Len(r.messages) :
          /\ r.messages[i].role = "user"
          /\ r.messages[i].content = Some(ClaimedText(d))

\* the append call of d's task failed
AppendFailed(d) ==
    \E i \in 1..Len(trace[d]) : trace[d][i].call = "append" /\ CallFailed(trace[d][i])

\* C31: when the forward call of an event is issued, the event's append call has
\* succeeded, the user's record is in the transcript under exactly the
\* conversation id of the forwarded request's context, and the agent's load of
\* that conversation returns messages that include it; a failed append is the
\* task's last call: no normalize, forward or post follows.
C31_Forward ==
    \A d \in Deliveries :
        ForwardStep(d)
        => /\ AppendSucceeded(d)
           /\ loc[d].request.context.conversation_id = ClaimedConversation(d)
           /\ UserMessageSaved(d)
           /\ LoadHoldsUserMessage(d, loc[d].request.context.conversation_id)

C31_AppendFailure ==
    \A d \in Deliveries :
        AppendFailed(d)
        => /\ pc[d] = "failed"
           /\ LastCall(d).call = "append"
           /\ WorkCalls(d) = <<"append">>

C31_SavedBeforeForward == []C31_AppendFailure /\ [][C31_Forward]_vars

\* a transcript record is the agent's reply
IsAssistantRecord(l) == l.role = "assistant" /\ l.content = Some(ReplyText)

\* a transcript record is the user's message of d's event
IsUserRecordOf(l, d) == l.role = "user" /\ l.content = ClaimedContent(d)

\* d's conversation ends with the user's record of d followed by the reply
EndsWithExchange(d) ==
    LET t == transcript[ClaimedConversation(d)] IN
    /\ Len(t) >= 2
    /\ IsUserRecordOf(t[Len(t) - 1], d)
    /\ IsAssistantRecord(t[Len(t)])

\* d's conversation holds the user's record of d directly followed by the reply
HoldsExchange(d) ==
    LET t == transcript[ClaimedConversation(d)] IN
    \E i \in 1..(Len(t) - 1) : IsUserRecordOf(t[i], d) /\ IsAssistantRecord(t[i + 1])

\* this step is a forward call of d's task that the agent completed
CompletedForwardStep(d) ==
    /\ ForwardStep(d)
    /\ NewCall(d) = Call("forward", <<"ok">>)
    /\ loc'[d].response.status = "completed"

\* this step appends the reply, and nothing else, to d's conversation, right
\* after the user's record of d
AppendsReply(d) ==
    LET c == ClaimedConversation(d) IN
    /\ transcript[c] # <<>>
    /\ IsUserRecordOf(transcript[c][Len(transcript[c])], d)
    /\ Len(transcript'[c]) = Len(transcript[c]) + 1
    /\ SubSeq(transcript'[c], 1, Len(transcript[c])) = transcript[c]
    /\ IsAssistantRecord(transcript'[c][Len(transcript'[c])])
    /\ \A c2 \in Conversations \ {c} : transcript'[c2] = transcript[c2]

\* a post of d's task carried the agent's reply
PostedReply(d) == \E i \in 1..Len(Posts(d)) : Posts(d)[i].data[4] = ReplyText

\* C32: when the agent invocation of an event completes, the assistant reply is
\* in the transcript before the post is attempted: the task's append adds the
\* user record, the completed forward adds the assistant record right after
\* it, no other call of the task up to and including the post changes the
\* transcript, and the pair stays in the transcript whether the post succeeds
\* or fails.
C32_Step ==
    \A d \in Deliveries :
        CallStep(d) =>
            CASE NewCall(d) = Call("append", <<"ok">>) -> AppendsUserMessage(d)
              [] CompletedForwardStep(d) -> AppendsReply(d)
              [] NewCall(d).call = "forward" /\ CallFailed(NewCall(d)) -> TRUE
              [] OTHER -> transcript' = transcript

C32_Kept ==
    \A d \in Deliveries :
        /\ (pc[d] = "forwarded" /\ loc[d].response.status = "completed")
           => EndsWithExchange(d)
        /\ PostedReply(d) => HoldsExchange(d)

====
